---- MODULE Spec2Model ----
(***************************************************************************)
(* geokit: combineSimilarRasters (src/geokit/_algorithms/                  *)
(* combineSimilarRasters.py), the raster mosaic compositor, as a state     *)
(* machine.  One behaviour is one call: the state after argument binding,  *)
(* then one action per statement group of the function body.               *)
(*                                                                         *)
(* Coordinates are integers; pixel sizes are 1 or 2 coordinate units, so   *)
(* an odd offset at pixel size 2 is a tile shifted by half a pixel.        *)
(* A raster's matrix is a sequence of rows in storage order (row 1 is      *)
(* storage row 0), each row a sequence of pixel values.                    *)
(***************************************************************************)
EXTENDS Integers, Sequences, FiniteSets, TLC

\* ---------------------------------------------------------------- bounds
\* the longest list of datasets handed to one call
MaxTiles == 2
\* the longest list of geometries handed to flatten
MaxGeoms == 6
\* the number of columns of the masks handed to convertMask (one row)
MaskCols == 5

\* ------------------------------------------------------------ value sets
\* Python's None (an undeclared nodata value, an absent keyword argument)
NONE == -1
\* pixel values a tile file may hold
TileVals == {0, 1}
\* the nodata value a tile may declare
TileNoData == {NONE, 0}
\* the noDataValue keyword argument
NoDataArgs == {NONE, 2}
\* (pixelWidth, pixelHeight) of the rasters of a merge run
Resolutions == {<<2, 1>>, <<1, 2>>}
\* the combining functions a caller may pass ("None": the argument is absent)
CombFuncs == {"None", "max"}

\* ------------------------------------------------------------- matrices
Max2(a, b) == IF a >= b THEN a ELSE b

Rows(m) == Len(m)
Cols(m) == IF Len(m) = 0 THEN 0 ELSE Len(m[1])

Uniform(rows, cols, v) == [r \in 1..rows |-> [c \in 1..cols |-> v]]
Checker(rows, cols) == [r \in 1..rows |-> [c \in 1..cols |-> (r + c) % 3]]

\* dMatrix[::-1,:]
FlipRows(m) == [r \in 1..Len(m) |-> m[Len(m) + 1 - r]]

\* the rasterInfo of a raster stored with its origin at (xMin, yMin/yMax)
RasterInfo(srs, dtype, dx, dy, xMin, yMin, cols, rows, noData, yAtTop) ==
  [srs |-> srs, dtype |-> dtype, dx |-> dx, dy |-> dy,
   xMin |-> xMin, yMin |-> yMin, xMax |-> xMin + cols * dx, yMax |-> yMin + rows * dy,
   noData |-> noData, yAtTop |-> yAtTop]

NoInfo == RasterInfo("", "", 1, 1, 0, 0, 0, 0, NONE, TRUE)
NoIdx == [ok |-> FALSE, xStart |-> 0, yStart |-> 0, xWin |-> 0, yWin |-> 0]
NoCreate == [called |-> FALSE, xMin |-> 0, yMin |-> 0, xMax |-> 0, yMax |-> 0,
             dtype |-> "", dx |-> 1, dy |-> 1, srs |-> "", noDataValue |-> NONE,
             fillValue |-> NONE]
NoCall == [mMatrix |-> <<>>, mInfo |-> NoInfo, dMatrix |-> <<>>, dInfo |-> NoInfo,
           ret |-> <<>>]

InfoCols(info) == (info.xMax - info.xMin) \div info.dx
InfoRows(info) == (info.yMax - info.yMin) \div info.dy

\* ------------------------------------------------ SpatialIndexResolver
\* numpy.round of n/d (d > 0): to the nearest integer, a tie to the even one
RoundDiv(n, d) ==
  LET q == n \div d
      r == n % d
  IN  IF 2 * r < d THEN q
      ELSE IF 2 * r > d THEN q + 1
      ELSE IF q % 2 = 0 THEN q ELSE q + 1

\* whether the integer k is the quotient n/d
IsClose(k, n, d) == k * d = n

\* Extent.findWithin(extent, (dx, dy), yAtTop): the pixel window of the
\* sub-extent sub inside the extent ext; ok is FALSE where it raises
findWithin(ext, sub, dx, dy, yAtTop) ==
  LET nx == sub.xMin - ext.xMin
      ny == IF yAtTop THEN ext.yMax - sub.yMax ELSE sub.yMin - ext.yMin
      xOff == RoundDiv(nx, dx)
      yOff == RoundDiv(ny, dy)
      xWin == RoundDiv(sub.xMax - sub.xMin, dx)
      yWin == RoundDiv(sub.yMax - sub.yMin, dy)
  IN  [ok |-> /\ IsClose(xOff, nx, dx) /\ IsClose(yOff, ny, dy)
              /\ IsClose(xWin, sub.xMax - sub.xMin, dx)
              /\ IsClose(yWin, sub.yMax - sub.yMin, dy),
       xStart |-> xOff, yStart |-> yOff, xWin |-> xWin, yWin |-> yWin]

\* mutant of ResolveWindow: the tile's orientation passed for the master's
MutResolveWindowTileOrientation(mI, dI) == findWithin(mI, dI, mI.dx, mI.dy, dI.yAtTop)

\* line 84: the master's extent, the tile's extent, the master's pixel size
\* and the master's orientation
ResolveWindow(mI, dI) == findWithin(mI, dI, mI.dx, mI.dy, mI.yAtTop)

\* ------------------------------------------------------------ RasterIO
\* whether a window lies inside a band of the given matrix
WindowInside(band, idx) ==
  /\ 0 <= idx.xStart /\ 0 <= idx.yStart
  /\ idx.xStart + idx.xWin <= Cols(band)
  /\ idx.yStart + idx.yWin <= Rows(band)

\* masterBand.ReadAsArray(xoff, yoff, win_xsize, win_ysize)
ReadAsArray(band, xoff, yoff, xsize, ysize) ==
  [r \in 1..ysize |-> [c \in 1..xsize |-> band[yoff + r][xoff + c]]]

\* masterBand.WriteArray(array, xoff, yoff)
WriteArray(band, array, xoff, yoff) ==
  [r \in 1..Rows(band) |-> [c \in 1..Cols(band) |->
     IF /\ r - yoff \in 1..Rows(array)
        /\ c - xoff \in 1..Cols(array)
     THEN array[r - yoff][c - xoff]
     ELSE band[r][c]]]

\* createRaster(bounds, dtype, pixelWidth, pixelHeight, noDataValue, srs,
\* fillValue): a top-down raster sized to cover bounds, filled with fillValue
CeilDiv(n, d) == (n + d - 1) \div d
createRaster(a) ==
  LET cols == CeilDiv(a.xMax - a.xMin, a.dx)
      rows == CeilDiv(a.yMax - a.yMin, a.dy)
      fill == IF a.fillValue = NONE THEN 0 ELSE a.fillValue
      info == [RasterInfo(a.srs, a.dtype, a.dx, a.dy, a.xMin, a.yMax - rows * a.dy,
                          cols, rows, a.noDataValue, TRUE)
                 EXCEPT !.yMax = a.yMax]
  IN  [exists |-> TRUE, info |-> info,
       band |-> Uniform(rows, cols, fill), disk |-> Uniform(rows, cols, fill)]

\* --------------------------------------------------- combining policies
\* the caller's combiningFunc(mMatrix, mInfo, dMatrix, dInfo)
ApplyFunc(f, mM, mI, dM, dI) ==
  [r \in 1..Rows(mM) |-> [c \in 1..Cols(mM) |-> Max2(mM[r][c], dM[r][c])]]

\* mutants of SparseOverlay: the selection dropped; the tile added to the master
MutSparseOverlayAll(mM, dM, noData) == dM
MutSparseOverlayAdd(mM, dM, noData) ==
  [r \in 1..Rows(mM) |-> [c \in 1..Cols(mM) |->
     IF dM[r][c] # noData THEN mM[r][c] + dM[r][c] ELSE mM[r][c]]]

\* lines 94-96: sel = dMatrix != noData; mMatrix[sel] = dMatrix[sel]
SparseOverlay(mM, dM, noData) ==
  [r \in 1..Rows(mM) |-> [c \in 1..Cols(mM) |->
     IF dM[r][c] # noData THEN dM[r][c] ELSE mM[r][c]]]

\* mutant of WriteMatrix: the nodata test made before the combiningFunc test
MutWriteMatrixNoDataFirst(f, mM, mI, dM, dI) ==
  IF dI.noData # NONE THEN SparseOverlay(mM, dM, dI.noData)
  ELSE IF f # "None" THEN ApplyFunc(f, mM, mI, dM, dI)
  ELSE dM

\* lines 91-98: the matrix written for a tile
WriteMatrix(f, mM, mI, dM, dI) ==
  IF f # "None" THEN ApplyFunc(f, mM, mI, dM, dI)
  ELSE IF dI.noData # NONE THEN SparseOverlay(mM, dM, dI.noData)
  ELSE dM

\* lines 80-81: the tile matrix in top-down row order
Normalize(raw, info) == IF ~info.yAtTop THEN FlipRows(raw) ELSE raw

\* ------------------------------------------------------------ validation
\* mutant of TileMismatch: the datatype comparison left out
MutTileMismatchNoDtype(infos) ==
  LET Bad(k) == \/ infos[k].srs # infos[1].srs
                \/ ~(infos[k].dx = infos[1].dx /\ infos[k].dy = infos[1].dy)
      Msg(k) == IF infos[k].srs # infos[1].srs THEN "SRS does not match in datasets"
                ELSE "Resolution does not match in datasets"
      bad == {k \in 2..Len(infos) : Bad(k)}
  IN  IF bad = {} THEN ""
      ELSE Msg(CHOOSE k \in bad : \A j \in bad : k <= j)

\* lines 23-29: the first mismatch of the tiles against the first tile
TileMismatch(infos) ==
  LET Bad(k) == \/ infos[k].srs # infos[1].srs
                \/ ~(infos[k].dx = infos[1].dx /\ infos[k].dy = infos[1].dy)
                \/ infos[k].dtype # infos[1].dtype
      Msg(k) == IF infos[k].srs # infos[1].srs THEN "SRS does not match in datasets"
                ELSE IF ~(infos[k].dx = infos[1].dx /\ infos[k].dy = infos[1].dy)
                THEN "Resolution does not match in datasets"
                ELSE "Datatype does not match in datasets"
      bad == {k \in 2..Len(infos) : Bad(k)}
  IN  IF bad = {} THEN ""
      ELSE Msg(CHOOSE k \in bad : \A j \in bad : k <= j)

\* lines 61-66: the mismatch of the master against the first tile
MasterMismatch(mI, first) ==
  IF mI.srs # first.srs THEN "SRS's do not match master dataset"
  ELSE IF ~(mI.dx = first.dx /\ mI.dy = first.dy)
  THEN "Resolution's do not match master dataset"
  ELSE IF mI.dtype # first.dtype THEN "Datatype's do not match master dataset"
  ELSE ""

\* lines 32-35: the bounds of the whole dataset group
SeqMin(s) == CHOOSE v \in {s[k] : k \in 1..Len(s)} : \A j \in 1..Len(s) : v <= s[j]
SeqMax(s) == CHOOSE v \in {s[k] : k \in 1..Len(s)} : \A j \in 1..Len(s) : v >= s[j]
\* mutant of DataBounds: the bounds of the first tile alone
MutDataBoundsFirst(infos) ==
  [xMin |-> infos[1].xMin, xMax |-> infos[1].xMax,
   yMin |-> infos[1].yMin, yMax |-> infos[1].yMax]
DataBounds(infos) ==
  [xMin |-> SeqMin([k \in 1..Len(infos) |-> infos[k].xMin]),
   xMax |-> SeqMax([k \in 1..Len(infos) |-> infos[k].xMax]),
   yMin |-> SeqMin([k \in 1..Len(infos) |-> infos[k].yMin]),
   yMax |-> SeqMax([k \in 1..Len(infos) |-> infos[k].yMax])]

\* mutant of NewNoData: the first tile's nodata value taken without comparing
MutNewNoDataFirstTile(arg, infos) ==
  IF arg # NONE THEN arg ELSE infos[1].noData

\* lines 40-44: the nodata value of a master that is created
NewNoData(arg, infos) ==
  LET noDataSet == {infos[k].noData : k \in 1..Len(infos)}
  IN  IF arg # NONE THEN arg
      ELSE IF Cardinality(noDataSet) = 1 THEN CHOOSE v \in noDataSet : TRUE
      ELSE NONE

\* lines 47-54: the arguments of createRaster
CreateArgs(arg, infos) ==
  LET b == DataBounds(infos)
      nd == NewNoData(arg, infos)
  IN  [called |-> TRUE, xMin |-> b.xMin, yMin |-> b.yMin, xMax |-> b.xMax,
       yMax |-> b.yMax, dtype |-> infos[1].dtype, dx |-> infos[1].dx,
       dy |-> infos[1].dy, srs |-> infos[1].srs, noDataValue |-> nd,
       fillValue |-> nd]

\* ----------------------------------------------------------------- state
VARIABLES
  datasets,      \* the list of tiles: [info, same] (same: the same dataset as the one before)
  master,        \* the master file: [exists, info, band, disk]
  combiningFunc, \* the combiningFunc argument
  noDataValue,   \* kwargs["noDataValue"]
  pc,            \* the statement group the call is at
  err,           \* the message of the error raised ("" while none)
  infoSet,       \* line 20
  created,       \* the arguments of the createRaster call (NoCreate: not called)
  mInfo,         \* line 58
  i,             \* the loop index (1-based)
  fetched,       \* line 79: the matrix as fetchMatrix returned it
  dMatrix,       \* lines 80-81
  idx,           \* line 84
  mMatrix,       \* line 88
  writeMatrix,   \* lines 91-98
  io,            \* how often each raster I/O primitive has been called
  lastCall,      \* the last invocation of combiningFunc: its arguments and result
  master0,       \* the master's band when the call began
  prevBand,      \* the master's band before the last WriteArray
  merged,        \* the master's band when the last tile was flushed (or the master created)
  failAt,        \* the step at which the backend or the caller's function fails
  gpc,           \* geomutil: the statement group flatten or convertMask is at
  fl,            \* geomutil.flatten: its argument, locals and return value
  cm             \* geomutil.convertMask: its arguments, locals and return value

vars == <<datasets, master, combiningFunc, noDataValue, pc, err, infoSet, created,
          mInfo, i, fetched, dMatrix, idx, mMatrix, writeMatrix, io, lastCall,
          master0, prevBand, merged, failAt, gpc, fl, cm>>

\* the state of the functions of geomutil
geomVars == <<gpc, fl, cm>>
\* what no step of combineSimilarRasters changes: its arguments, and the
\* state of the functions of geomutil
inputs == <<datasets, combiningFunc, noDataValue, master0, failAt, geomVars>>
locals == <<infoSet, created, mInfo, i, fetched, dMatrix, idx, mMatrix, writeMatrix>>

\* no failure of the backend during the call
NoFault == [tile |-> 0, step |-> ""]
\* whether the given step of the tile at hand is the one that fails
Fails(step) == failAt.tile = i /\ failAt.step = step

NoIO == [info |-> 0, create |-> 0, open |-> 0, read |-> 0, write |-> 0,
         flush |-> 0, calls |-> 0, fetch |-> 0]

\* ------------------------------------------------------- geomutil values
\* src/geokit/_core/geomutil.py: flatten and convertMask.  A geometry is the
\* number of times each cell of the plane is covered; Union adds the covers
\* (associative and commutative, and it counts how often an input went in).
Cells == 1..MaskCols
NoGeom == [c \in Cells |-> 0]
\* the geometry covering the cells a..b once
Box(a, b) == [c \in Cells |-> IF a <= c /\ c <= b THEN 1 ELSE 0]
\* geoms[gi].Union(geoms[gi+1])
Union(a, b) == [c \in Cells |-> a[c] + b[c]]

\* Python values: None, a geometry, a list of geometries; Pending: not yet returned
NoneVal == [kind |-> "None", geom |-> NoGeom, list |-> <<>>]
GeomVal(g) == [kind |-> "geom", geom |-> g, list |-> <<>>]
ListVal(l) == [kind |-> "list", geom |-> NoGeom, list |-> l]
Pending == [kind |-> "pending", geom |-> NoGeom, list |-> <<>>]

\* the function object flatten, tested as a condition, is true
FlattenIsTruthy == TRUE

NoFlatten == [geoms0 |-> <<>>, geoms |-> <<>>, newGeoms |-> <<>>, gi |-> 0,
              caller |-> "", ret |-> Pending]
NoMask == [dtype |-> "", mask |-> <<>>, flat |-> FALSE, polygonizeResult |-> 0,
           ftrs |-> <<>>, ftrN |-> 0, geoms |-> <<>>, final |-> Pending,
           ret |-> Pending]

GeomIdle == gpc = "idle" /\ fl = NoFlatten /\ cm = NoMask

\* ---------------------------------------------------------------- inputs
NoMaster == [exists |-> FALSE, info |-> NoInfo, band |-> <<>>, disk |-> <<>>]

\* a master file that exists before the call, covering (0,0)-(4,4)
OldMaster(srs, dtype, dx, dy, yAtTop, pattern) ==
  LET cols == 4 \div dx
      rows == 4 \div dy
      m == IF pattern = "checker" THEN Checker(rows, cols) ELSE Uniform(rows, cols, 2)
  IN  [exists |-> TRUE,
       info |-> RasterInfo(srs, dtype, dx, dy, 0, 0, cols, rows, NONE, yAtTop),
       band |-> m, disk |-> m]

\* rasters that differ from the reference raster in at most one schema field
Deviations == {"same", "srs", "dx", "dy", "dtype"}
DevSrs(d) == IF d = "srs" THEN "EPSG:3035" ELSE "EPSG:4326"
DevType(d) == IF d = "dtype" THEN "Float32" ELSE "Byte"
DevDx(d) == IF d = "dx" THEN 2 ELSE 1
DevDy(d) == IF d = "dy" THEN 2 ELSE 1
DevTile(d) ==
  [info |-> RasterInfo(DevSrs(d), DevType(d), DevDx(d), DevDy(d), 0, 0, 1, 1, NONE, TRUE),
   same |-> FALSE]
DevMaster(d) == OldMaster(DevSrs(d), DevType(d), DevDx(d), DevDy(d), TRUE, "uniform")

\* the inputs of the validation runs: any number of tiles, schemas vary
SchemaDatasets ==
  {<<>>} \cup
  UNION {{<<DevTile("same")>> \o rest : rest \in [1..(n - 1) -> {DevTile(d) : d \in Deviations}]}
         : n \in 1..MaxTiles}
SchemaMasters == {NoMaster} \cup {DevMaster(d) : d \in Deviations}

\* the inputs of the merge runs: one schema, footprints and orientations vary
\* two rows high in the first column, stacked and overlapping, in both row orders
TallFootprints ==
  {[x |-> 0, y |-> 0, rows |-> 2, yAtTop |-> TRUE],
   [x |-> 0, y |-> 1, rows |-> 2, yAtTop |-> FALSE],
   [x |-> 0, y |-> 2, rows |-> 2, yAtTop |-> TRUE]}
\* one pixel, to the right of the first column
SideFootprints == {[x |-> x, y |-> 0, rows |-> 1, yAtTop |-> TRUE] : x \in 1..2}
MergeTile(res, f, nd) ==
  [info |-> RasterInfo("EPSG:4326", "Byte", res[1], res[2], f.x, f.y, 1, f.rows, nd, f.yAtTop),
   same |-> FALSE]
MergeTiles(res) ==
  {MergeTile(res, f, nd) : f \in TallFootprints, nd \in TileNoData}
  \cup {MergeTile(res, f, NONE) : f \in SideFootprints}
Repeat(t) == [t EXCEPT !.same = TRUE]
\* lists of tiles; a tile may be followed by the same dataset again
RECURSIVE MergeLists(_, _)
MergeLists(res, n) ==
  IF n = 1 THEN {<<t>> : t \in MergeTiles(res)}
  ELSE LET shorter == MergeLists(res, n - 1)
       IN  {s \o <<t>> : s \in shorter, t \in MergeTiles(res)}
           \cup {s \o <<Repeat(s[Len(s)])>> : s \in shorter}
MergeDatasets(res) == UNION {MergeLists(res, n) : n \in 1..MaxTiles}
MergeMasters(res, f) ==
  {NoMaster} \cup
  {OldMaster("EPSG:4326", "Byte", res[1], res[2], t, "checker") :
     t \in (IF f = "None" THEN BOOLEAN ELSE {TRUE})}

InitLocals ==
  /\ pc = "entry" /\ err = "" /\ infoSet = <<>> /\ created = NoCreate
  /\ mInfo = NoInfo /\ i = 0 /\ fetched = <<>> /\ dMatrix = <<>> /\ idx = NoIdx
  /\ mMatrix = <<>>
  /\ writeMatrix = <<>> /\ io = NoIO /\ lastCall = NoCall
  /\ master0 = master.band /\ prevBand = master.band /\ merged = master.band

InitSchema ==
  /\ datasets \in SchemaDatasets
  /\ master \in SchemaMasters
  /\ combiningFunc = "None"
  /\ noDataValue = NONE
  /\ failAt = NoFault
  /\ InitLocals

InitMerge ==
  /\ combiningFunc \in CombFuncs
  /\ \E res \in Resolutions :
       /\ datasets \in MergeDatasets(res)
       /\ master \in MergeMasters(res, combiningFunc)
  /\ noDataValue \in (IF master.exists \/ combiningFunc # "None" THEN {NONE}
                      ELSE NoDataArgs)
  /\ failAt = NoFault
  /\ InitLocals

\* the inputs of the runs in which a step of the per-tile loop fails: tiles
\* of one pixel in the bottom row, a failure at one step of one tile
FaultSteps(f) ==
  {"fetch", "read", "write", "flush"} \cup (IF f = "None" THEN {} ELSE {"func"})
FaultDatasets ==
  UNION {[1..n -> {MergeTile(<<1, 2>>, f, NONE) : f \in SideFootprints}] : n \in 1..MaxTiles}
InitFault ==
  /\ combiningFunc \in CombFuncs
  /\ datasets \in FaultDatasets
  /\ master \in {NoMaster, OldMaster("EPSG:4326", "Byte", 1, 2, TRUE, "checker")}
  /\ noDataValue = NONE
  /\ failAt \in {[tile |-> k, step |-> st] :
                   k \in 1..Len(datasets), st \in FaultSteps(combiningFunc)}
  /\ InitLocals

\* a call of combineSimilarRasters: no function of geomutil is running
Init == (InitSchema \/ InitMerge \/ InitFault) /\ GeomIdle

\* --------------------------------------------------------------- actions
Raise(msg) == pc' = "error" /\ err' = msg

\* mutant of CheckEmpty: the length test left out
MutCheckEmptyNoTest ==
  /\ pc = "entry"
  /\ pc' = "info" /\ err' = err
  /\ UNCHANGED <<inputs, master, locals, io, lastCall, prevBand, merged>>

\* line 17
CheckEmpty ==
  /\ pc = "entry"
  /\ IF Len(datasets) = 0 THEN Raise("No datasets given")
     ELSE pc' = "info" /\ err' = err
  /\ UNCHANGED <<inputs, master, locals, io, lastCall, prevBand, merged>>

\* line 20
ReadInfos ==
  /\ pc = "info"
  /\ infoSet' = [k \in 1..Len(datasets) |-> datasets[k].info]
  /\ io' = [io EXCEPT !.info = Len(datasets)]
  /\ pc' = "checkTiles"
  /\ UNCHANGED <<inputs, master, err, created, mInfo, i, fetched, dMatrix, idx, mMatrix,
                 writeMatrix, lastCall, prevBand, merged>>

\* lines 22-29
CheckTiles ==
  /\ pc = "checkTiles"
  /\ IF TileMismatch(infoSet) # "" THEN Raise(TileMismatch(infoSet))
     ELSE pc' = "create" /\ err' = err
  /\ UNCHANGED <<inputs, master, locals, io, lastCall, prevBand, merged>>

\* lines 31-54
MaybeCreate ==
  /\ pc = "create"
  /\ IF ~master.exists
     THEN /\ created' = CreateArgs(noDataValue, infoSet)
          /\ master' = createRaster(created')
          /\ io' = [io EXCEPT !.create = 1]
     ELSE UNCHANGED <<created, master, io>>
  /\ merged' = master'.band
  /\ pc' = "open"
  /\ UNCHANGED <<inputs, err, infoSet, mInfo, i, fetched, dMatrix, idx, mMatrix, writeMatrix,
                 lastCall, prevBand>>

\* lines 56-59
OpenMaster ==
  /\ pc = "open"
  /\ mInfo' = master.info
  /\ io' = [io EXCEPT !.open = 1]
  /\ pc' = "checkMaster"
  /\ UNCHANGED <<inputs, master, err, infoSet, created, i, fetched, dMatrix, idx, mMatrix,
                 writeMatrix, lastCall, prevBand, merged>>

\* lines 61-68
CheckMaster ==
  /\ pc = "checkMaster"
  /\ IF MasterMismatch(mInfo, infoSet[1]) # ""
     THEN Raise(MasterMismatch(mInfo, infoSet[1])) /\ i' = i
     ELSE pc' = "fetch" /\ err' = err /\ i' = 1
  /\ UNCHANGED <<inputs, master, infoSet, created, mInfo, fetched, dMatrix, idx, mMatrix,
                 writeMatrix, io, lastCall, prevBand, merged>>

\* the matrices a tile file of the given shape may hold
TileMatrices(info) ==
  [1..InfoRows(info) -> [1..InfoCols(info) -> TileVals]]

\* mutant of FetchMatrix: a tile that cannot be read is skipped
MutFetchMatrixSkipUnreadable ==
  /\ pc = "fetch"
  /\ io' = [io EXCEPT !.fetch = @ + 1]
  /\ IF Fails("fetch")
     THEN /\ IF i < Len(datasets) THEN i' = i + 1 /\ pc' = "fetch"
             ELSE i' = i /\ pc' = "final"
          /\ UNCHANGED <<fetched, dMatrix>>
     ELSE /\ IF datasets[i].same
             THEN fetched' = fetched
             ELSE fetched' \in TileMatrices(infoSet[i])
          /\ dMatrix' = Normalize(fetched', infoSet[i])
          /\ pc' = "resolve" /\ i' = i
  /\ UNCHANGED <<inputs, master, err, infoSet, created, mInfo, idx, mMatrix,
                 writeMatrix, lastCall, prevBand, merged>>

\* lines 76-81: fetchMatrix reads the tile's file; the same dataset holds
\* the same matrix
FetchMatrix ==
  /\ pc = "fetch"
  /\ io' = [io EXCEPT !.fetch = @ + 1]
  /\ IF Fails("fetch")
     THEN Raise("IOFailure") /\ UNCHANGED <<fetched, dMatrix>>
     ELSE /\ IF datasets[i].same
             THEN fetched' = fetched
             ELSE fetched' \in TileMatrices(infoSet[i])
          /\ dMatrix' = Normalize(fetched', infoSet[i])
          /\ pc' = "resolve" /\ err' = err
  /\ UNCHANGED <<inputs, master, infoSet, created, mInfo, i, idx, mMatrix,
                 writeMatrix, lastCall, prevBand, merged>>

\* mutant of Resolve: the resolver's failure not propagated
MutResolveNoRaise ==
  /\ pc = "resolve"
  /\ idx' = ResolveWindow(mInfo, infoSet[i])
  /\ pc' = "read" /\ err' = err
  /\ UNCHANGED <<inputs, master, infoSet, created, mInfo, i, fetched, dMatrix, mMatrix,
                 writeMatrix, io, lastCall, prevBand, merged>>

\* line 84
Resolve ==
  /\ pc = "resolve"
  /\ idx' = ResolveWindow(mInfo, infoSet[i])
  /\ IF ~idx'.ok THEN Raise("MisalignedTile")
     ELSE pc' = "read" /\ err' = err
  /\ UNCHANGED <<inputs, master, infoSet, created, mInfo, i, fetched, dMatrix, mMatrix,
                 writeMatrix, io, lastCall, prevBand, merged>>

\* line 88
ReadWindow ==
  /\ pc = "read"
  /\ IF ~WindowInside(master.band, idx)
     THEN Raise("BackendIOError") /\ UNCHANGED <<mMatrix, io>>
     ELSE IF Fails("read")
     THEN Raise("IOFailure") /\ io' = [io EXCEPT !.read = @ + 1] /\ mMatrix' = mMatrix
     ELSE /\ mMatrix' = ReadAsArray(master.band, idx.xStart, idx.yStart, idx.xWin, idx.yWin)
          /\ io' = [io EXCEPT !.read = @ + 1]
          /\ pc' = "combine" /\ err' = err
  /\ UNCHANGED <<inputs, master, infoSet, created, mInfo, i, fetched, dMatrix, idx,
                 writeMatrix, lastCall, prevBand, merged>>

\* lines 90-98; the overlay branch assigns into mMatrix itself
Combine ==
  /\ pc = "combine"
  /\ IF combiningFunc # "None" /\ Fails("func")
     THEN /\ Raise("CombiningFuncError")
          /\ io' = [io EXCEPT !.calls = @ + 1]
          /\ UNCHANGED <<writeMatrix, mMatrix, lastCall>>
     ELSE /\ writeMatrix' = WriteMatrix(combiningFunc, mMatrix, mInfo, dMatrix, infoSet[i])
          /\ mMatrix' = IF combiningFunc = "None" /\ infoSet[i].noData # NONE
                        THEN writeMatrix' ELSE mMatrix
          /\ IF combiningFunc # "None"
             THEN /\ lastCall' = [mMatrix |-> mMatrix, mInfo |-> mInfo, dMatrix |-> dMatrix,
                                  dInfo |-> infoSet[i], ret |-> ApplyFunc(combiningFunc, mMatrix, mInfo, dMatrix, infoSet[i])]
                  /\ io' = [io EXCEPT !.calls = @ + 1]
             ELSE UNCHANGED <<lastCall, io>>
          /\ pc' = "write" /\ err' = err
  /\ UNCHANGED <<inputs, master, infoSet, created, mInfo, i, fetched, dMatrix, idx,
                 prevBand, merged>>

\* line 101
\* a WriteArray that fails may have written nothing or the whole window
Write ==
  /\ pc = "write"
  /\ prevBand' = master.band
  /\ io' = [io EXCEPT !.write = @ + 1]
  /\ IF Fails("write")
     THEN /\ \E done \in BOOLEAN :
               master' = IF done
                         THEN [master EXCEPT !.band = WriteArray(@, writeMatrix, idx.xStart, idx.yStart)]
                         ELSE master
          /\ Raise("IOFailure")
     ELSE /\ master' = [master EXCEPT !.band = WriteArray(@, writeMatrix, idx.xStart, idx.yStart)]
          /\ pc' = "flush" /\ err' = err
  /\ UNCHANGED <<inputs, locals, lastCall, merged>>

\* mutant of Flush: the cache not written to the file
MutFlushNoPersist ==
  /\ pc = "flush"
  /\ io' = [io EXCEPT !.flush = @ + 1]
  /\ IF i < Len(datasets) THEN i' = i + 1 /\ pc' = "fetch"
     ELSE i' = i /\ pc' = "final"
  /\ merged' = master.band
  /\ UNCHANGED <<inputs, master, err, infoSet, created, mInfo, fetched, dMatrix, idx,
                 mMatrix, writeMatrix, lastCall, prevBand>>

\* line 102, and the loop's next index
\* a FlushCache that fails may or may not have written the file
Flush ==
  /\ pc = "flush"
  /\ io' = [io EXCEPT !.flush = @ + 1]
  /\ IF Fails("flush")
     THEN /\ \E done \in BOOLEAN :
               master' = IF done THEN [master EXCEPT !.disk = master.band] ELSE master
          /\ Raise("IOFailure")
          /\ UNCHANGED <<i, merged>>
     ELSE /\ master' = [master EXCEPT !.disk = master.band]
          /\ merged' = master.band
          /\ IF i < Len(datasets) THEN i' = i + 1 /\ pc' = "fetch"
             ELSE i' = i /\ pc' = "final"
          /\ err' = err
  /\ UNCHANGED <<inputs, infoSet, created, mInfo, fetched, dMatrix, idx, mMatrix,
                 writeMatrix, lastCall, prevBand>>

\* lines 104-107
Finalize ==
  /\ pc = "final"
  /\ master' = [master EXCEPT !.disk = master.band]
  /\ pc' = "done"
  /\ UNCHANGED <<inputs, err, locals, io, lastCall, prevBand, merged>>

Next ==
  \/ CheckEmpty
  \/ ReadInfos
  \/ CheckTiles
  \/ MaybeCreate
  \/ OpenMaster
  \/ CheckMaster
  \/ FetchMatrix
  \/ Resolve
  \/ ReadWindow
  \/ Combine
  \/ Write
  \/ Flush
  \/ Finalize

Spec == Init /\ [][Next]_vars

\* ================================================================ geomutil
\* the calls of flatten and convertMask as a state machine
\* the state of combineSimilarRasters while a function of geomutil runs
RasterIdle ==
  /\ datasets = <<>> /\ master = NoMaster /\ combiningFunc = "None"
  /\ noDataValue = NONE /\ failAt = NoFault /\ InitLocals

rasterVars == <<datasets, master, combiningFunc, noDataValue, pc, err, infoSet, created,
                mInfo, i, fetched, dMatrix, idx, mMatrix, writeMatrix, io, lastCall,
                master0, prevBand, merged, failAt>>

\* the geometries a caller hands to flatten: two that overlap
GeomChoices == {Box(1, 1), Box(1, 2)}
GeomLists == UNION {[1..n -> GeomChoices] : n \in 0..MaxGeoms}

\* flatten(geoms) called by a user
InitFlatten ==
  /\ gpc = "f_entry"
  /\ \E l \in GeomLists : fl = [NoFlatten EXCEPT !.geoms0 = l, !.geoms = l, !.caller = "user"]
  /\ cm = NoMask

\* convertMask(mask, flat=flat): a mask of one row
MaskDtypes == {"bool", "uint8", "float64"}
InitMask ==
  /\ gpc = "m_entry"
  /\ fl = NoFlatten
  /\ \E d \in MaskDtypes, m \in [1..MaskCols -> {0, 1}], f \in BOOLEAN, res \in {0, 1} :
       cm = [NoMask EXCEPT !.dtype = d, !.mask = m, !.flat = f, !.polygonizeResult = res]

InitGeom == RasterIdle /\ (InitFlatten \/ InitMask)

\* --------------------------------------------------------------- flatten
\* lines 402-409
FlattenEntry ==
  /\ gpc = "f_entry"
  /\ IF Len(fl.geoms) = 0
     THEN /\ fl' = [fl EXCEPT !.ret = NoneVal]
          /\ gpc' = IF fl.caller = "user" THEN "done" ELSE "m_final"
     ELSE /\ fl' = fl
          /\ gpc' = "f_while"
  /\ UNCHANGED <<cm, rasterVars>>

\* lines 423-424, 431: the test of the while loop
FlattenWhile ==
  /\ gpc = "f_while"
  /\ IF Len(fl.geoms) > 1
     THEN /\ fl' = [fl EXCEPT !.newGeoms = <<>>, !.gi = 0]
          /\ gpc' = "f_for"
     ELSE /\ fl' = [fl EXCEPT !.ret = GeomVal(fl.geoms[1])]
          /\ gpc' = IF fl.caller = "user" THEN "done" ELSE "m_final"
  /\ UNCHANGED <<cm, rasterVars>>

\* mutant of FlattenPair: the unpaired last geometry of a round is dropped
MutFlattenPairDropsUnpaired ==
  /\ gpc = "f_for"
  /\ fl.gi < Len(fl.geoms)
  /\ fl' = [fl EXCEPT
       !.newGeoms = IF fl.gi + 2 <= Len(fl.geoms)
                    THEN Append(@, Union(fl.geoms[fl.gi + 1], fl.geoms[fl.gi + 2]))
                    ELSE @,
       !.gi = @ + 2]
  /\ gpc' = gpc
  /\ UNCHANGED <<cm, rasterVars>>

\* lines 425-429: one pass of the for loop (gi is 0-based, sequences 1-based);
\* geoms[gi+1] past the end raises IndexError and geoms[gi] goes on alone
FlattenPair ==
  /\ gpc = "f_for"
  /\ fl.gi < Len(fl.geoms)
  /\ fl' = [fl EXCEPT
       !.newGeoms = IF fl.gi + 2 <= Len(fl.geoms)
                    THEN Append(@, Union(fl.geoms[fl.gi + 1], fl.geoms[fl.gi + 2]))
                    ELSE Append(@, fl.geoms[fl.gi + 1]),
       !.gi = @ + 2]
  /\ gpc' = gpc
  /\ UNCHANGED <<cm, rasterVars>>

\* line 430: the for loop is over
FlattenRoundEnd ==
  /\ gpc = "f_for"
  /\ fl.gi >= Len(fl.geoms)
  /\ fl' = [fl EXCEPT !.geoms = fl.newGeoms]
  /\ gpc' = "f_while"
  /\ UNCHANGED <<cm, rasterVars>>

\* ----------------------------------------------------------- convertMask
\* gdal.Polygonize on a one-row mask: one feature per run of true cells
RunStarts(m) == {c \in 1..Len(m) : m[c] /\ (c = 1 \/ ~m[c - 1])}
RunEnd(m, a) ==
  CHOOSE e \in a..Len(m) :
     /\ \A c \in a..e : m[c]
     /\ (e = Len(m) \/ ~m[e + 1])
RECURSIVE RunsFrom(_, _)
RunsFrom(m, c) ==
  IF c > Len(m) THEN <<>>
  ELSE IF c \in RunStarts(m)
  THEN <<Box(c, RunEnd(m, c))>> \o RunsFrom(m, RunEnd(m, c) + 1)
  ELSE RunsFrom(m, c + 1)
Polygonize(m) == RunsFrom(m, 1)

\* lines 209-214: mask.astype("bool")
AsBool(m) == [c \in 1..Len(m) |-> m[c] # 0]

\* lines 208-293: the mask is checked, written to a raster and polygonized
MaskPolygonize ==
  /\ gpc = "m_entry"
  /\ IF cm.dtype # "bool" /\ cm.dtype # "uint8"
     THEN gpc' = "error" /\ cm' = cm
     ELSE IF cm.polygonizeResult # 0
     THEN gpc' = "error" /\ cm' = cm
     ELSE /\ cm' = [cm EXCEPT !.ftrs = Polygonize(AsBool(cm.mask))]
          /\ gpc' = "m_count"
  /\ UNCHANGED <<fl, rasterVars>>

\* lines 295-302
MaskCount ==
  /\ gpc = "m_count"
  /\ IF Len(cm.ftrs) = 0
     THEN /\ cm' = [cm EXCEPT !.ftrN = 0,
                              !.ret = IF FlattenIsTruthy THEN NoneVal ELSE ListVal(<<>>)]
          /\ gpc' = "done"
     ELSE /\ cm' = [cm EXCEPT !.ftrN = Len(cm.ftrs)]
          /\ gpc' = "m_one"
  /\ UNCHANGED <<fl, rasterVars>>

\* lines 304-310
MaskOneFeature ==
  /\ gpc = "m_one"
  /\ cm' = IF cm.ftrN = 1
           THEN [cm EXCEPT !.final = IF FlattenIsTruthy THEN GeomVal(cm.ftrs[1])
                                     ELSE ListVal(<<cm.ftrs[1]>>)]
           ELSE cm
  /\ gpc' = "m_collect"
  /\ UNCHANGED <<fl, rasterVars>>

\* lines 314-319: the features' geometries; flatten is called if flat
MaskCollect ==
  /\ gpc = "m_collect"
  /\ LET geoms == [k \in 1..cm.ftrN |-> cm.ftrs[k]]
     IN  IF cm.flat
         THEN /\ cm' = [cm EXCEPT !.geoms = geoms]
              /\ fl' = [NoFlatten EXCEPT !.geoms0 = geoms, !.geoms = geoms,
                                         !.caller = "convertMask"]
              /\ gpc' = "f_entry"
         ELSE /\ cm' = [cm EXCEPT !.geoms = geoms, !.final = ListVal(geoms)]
              /\ fl' = fl
              /\ gpc' = "m_return"
  /\ UNCHANGED rasterVars

\* line 319: final = flatten(geoms)
MaskFlattened ==
  /\ gpc = "m_final"
  /\ cm' = [cm EXCEPT !.final = fl.ret]
  /\ gpc' = "m_return"
  /\ UNCHANGED <<fl, rasterVars>>

\* lines 321-328
MaskReturn ==
  /\ gpc = "m_return"
  /\ cm' = [cm EXCEPT !.ret = cm.final]
  /\ gpc' = "done"
  /\ UNCHANGED <<fl, rasterVars>>

NextGeom ==
  \/ FlattenEntry
  \/ FlattenWhile
  \/ FlattenPair
  \/ FlattenRoundEnd
  \/ MaskPolygonize
  \/ MaskCount
  \/ MaskOneFeature
  \/ MaskCollect
  \/ MaskFlattened
  \/ MaskReturn

\* a call runs on until it returns or raises
GeomSpec == InitGeom /\ [][NextGeom]_vars /\ WF_vars(NextGeom)

\* ---------------------------------------------------------------- claims
SchemaErrors ==
  {"SRS does not match in datasets", "Resolution does not match in datasets",
   "Datatype does not match in datasets", "SRS's do not match master dataset",
   "Resolution's do not match master dataset", "Datatype's do not match master dataset"}

Disagree(a, b) == a.srs # b.srs \/ a.dx # b.dx \/ a.dy # b.dy \/ a.dtype # b.dtype
TilesDisagree == \E k \in 2..Len(datasets) : Disagree(datasets[k].info, datasets[1].info)
\* the master file existed before the call
MasterPreexists == master.exists /\ ~created.called
MasterDisagrees ==
  Len(datasets) > 0 /\ MasterPreexists /\ Disagree(master.info, datasets[1].info)
\* the statement groups before the per-tile loop
ValidationPcs == {"entry", "info", "checkTiles", "create", "open", "checkMaster"}
\* the states in which tile i has just been written and the locals are still its own
AppliedPcs == {"flush", "final", "done"}

\* C1: if a tile disagrees with the first tile on SRS, pixel width, pixel
\* height or datatype, or a pre-existing master disagrees with the first tile,
\* the call never gets past validation, the error it ends in is a schema
\* error, and the master has not been written: its band and its file hold
\* the values they held when the call began (a tile mismatch is raised before
\* the master is even created or opened); until the error the call goes on.
C1_SchemaMismatchBeforeWrite ==
  (TilesDisagree \/ MasterDisagrees) =>
     /\ pc \in ValidationPcs \cup {"error"}
     /\ (pc \in ValidationPcs => ENABLED Next)
     /\ (pc = "error" => err \in SchemaErrors)
     /\ io.write = 0 /\ io.read = 0
     /\ master.band = master0 /\ master.disk = master0
     /\ (TilesDisagree => io.create = 0 /\ io.open = 0)

\* C1 witness: two tiles of different datatype, a master that existed: the
\* call has failed with the datatype error
C1_Witness ==
  /\ pc = "error" /\ err = "Datatype does not match in datasets"
  /\ MasterPreexists /\ master0 # <<>> /\ master.band = master0

\* C2: a call with zero tiles raises the empty-input error and has performed
\* no raster I/O: no tile metadata read, no master created or opened, no tile
\* matrix fetched, no window read or written, nothing flushed.
C2_EmptyInputNoIO ==
  Len(datasets) = 0 =>
     /\ pc \in {"entry", "error"}
     /\ (pc = "entry" => ENABLED Next)
     /\ (pc = "error" => err = "No datasets given")
     /\ io = NoIO /\ infoSet = <<>> /\ ~created.called
     /\ master.band = master0 /\ master.disk = master0

\* C2 witness: the call with no tiles has failed
C2_Witness == Len(datasets) = 0 /\ pc = "error" /\ err = "No datasets given"

\* C3: when the master does not exist, it is created (only for tiles that
\* agree on the schema) with the bounds (min xMin, min yMin, max xMax,
\* max yMax) over the tiles: each bound is a bound of every tile and is the
\* bound of some tile.  The raster made from them has its origin at
\* (xMin, yMax), covers the bounds, and has exactly those bounds when they
\* span whole pixels.
C3_NewMasterBoundsAreUnion ==
  /\ (io.open = 1 /\ master0 = <<>>) => created.called
  /\ created.called =>
       /\ ~TilesDisagree
       /\ \A k \in 1..Len(infoSet) :
            /\ created.xMin <= infoSet[k].xMin /\ created.yMin <= infoSet[k].yMin
            /\ created.xMax >= infoSet[k].xMax /\ created.yMax >= infoSet[k].yMax
       /\ \E k \in 1..Len(infoSet) : created.xMin = infoSet[k].xMin
       /\ \E k \in 1..Len(infoSet) : created.yMin = infoSet[k].yMin
       /\ \E k \in 1..Len(infoSet) : created.xMax = infoSet[k].xMax
       /\ \E k \in 1..Len(infoSet) : created.yMax = infoSet[k].yMax
       /\ master.info.xMin = created.xMin /\ master.info.yMax = created.yMax
       /\ master.info.xMax >= created.xMax /\ master.info.yMin <= created.yMin
       /\ ((created.xMax - created.xMin) % created.dx = 0
             => master.info.xMax = created.xMax)
       /\ ((created.yMax - created.yMin) % created.dy = 0
             => master.info.yMin = created.yMin)

\* C3 witness: a master created for two tiles neither of which spans the union
C3_Witness ==
  /\ created.called /\ Len(infoSet) = 2
  /\ created.yMax > infoSet[1].yMax /\ created.yMin < infoSet[2].yMin
  /\ master.info.yMin = created.yMin /\ master.info.yMax = created.yMax

\* C4: with no combiningFunc and a tile that declares a nodata value, after
\* the tile is written every master pixel inside the tile's window equals the
\* pixel of the (orientation-normalized) tile matrix at the same window index
\* where that is not the nodata value, and the master's previous value where
\* it is; every master pixel outside the window is unchanged.
C4_SparseOverlay ==
  (pc \in AppliedPcs /\ combiningFunc = "None" /\ infoSet[i].noData # NONE) =>
     /\ Rows(master.band) = Rows(prevBand) /\ Cols(master.band) = Cols(prevBand)
     /\ \A r \in 1..Rows(master.band), c \in 1..Cols(master.band) :
          LET wr == r - idx.yStart
              wc == c - idx.xStart
              inWin == wr \in 1..idx.yWin /\ wc \in 1..idx.xWin
          IN  master.band[r][c] =
                IF inWin /\ dMatrix[wr][wc] # infoSet[i].noData
                THEN dMatrix[wr][wc] ELSE prevBand[r][c]

\* C4 witness: a nodata-declaring tile has been written over a master that
\* held data; one of its pixels was nodata and the master kept a value other
\* than nodata there, another was data and replaced a different master value
C4_Witness ==
  /\ pc = "flush" /\ combiningFunc = "None" /\ infoSet[i].noData # NONE
  /\ \E r \in 1..idx.yWin, c \in 1..idx.xWin :
       /\ dMatrix[r][c] = infoSet[i].noData
       /\ master.band[idx.yStart + r][idx.xStart + c] # infoSet[i].noData
  /\ \E r \in 1..idx.yWin, c \in 1..idx.xWin :
       /\ dMatrix[r][c] # infoSet[i].noData
       /\ prevBand[idx.yStart + r][idx.xStart + c] # dMatrix[r][c]

\* C5: applying the same nodata-declaring tile twice in a row with no
\* combiningFunc is idempotent: the master after the second application
\* equals the master after the first, whatever the master held before.
C5_OverlayIdempotent ==
  (pc \in AppliedPcs /\ i >= 2 /\ datasets[i].same /\ combiningFunc = "None"
     /\ infoSet[i].noData # NONE) => master.band = prevBand

\* C5 witness: the second application of a tile with data and nodata pixels,
\* whose first application changed a master that existed
C5_Witness ==
  /\ pc = "flush" /\ i = 2 /\ datasets[2].same /\ combiningFunc = "None"
  /\ infoSet[2].noData # NONE /\ master0 # <<>> /\ master.band # master0
  /\ \E r \in 1..idx.yWin : dMatrix[r][1] = infoSet[2].noData
  /\ \E r \in 1..idx.yWin : dMatrix[r][1] # infoSet[2].noData

\* the value a raster holds for the pixel whose lower left corner is (x, y)
ValueAt(info, matrix, x, y) ==
  LET col == (x - info.xMin) \div info.dx + 1
      row == IF info.yAtTop THEN (info.yMax - y) \div info.dy
             ELSE (y - info.yMin) \div info.dy + 1
  IN  matrix[row][col]
\* the lower left corners of the pixels of a raster
PixelsOf(info) ==
  {<<info.xMin + cx * info.dx, info.yMin + cy * info.dy>> :
     cx \in 0..(InfoCols(info) - 1), cy \in 0..(InfoRows(info) - 1)}
\* whether the pixel at (x, y) lies in the footprint of a raster
Covers(info, x, y) ==
  /\ info.xMin <= x /\ x < info.xMax /\ info.yMin <= y /\ y < info.yMax
\* tile i and the tile before it are dense, overlap, and tile i has been written
DensePairApplied ==
  /\ pc \in AppliedPcs /\ i >= 2 /\ combiningFunc = "None"
  /\ infoSet[i].noData = NONE /\ infoSet[i - 1].noData = NONE
  /\ \E p \in PixelsOf(infoSet[i]) : Covers(infoSet[i - 1], p[1], p[2])
LaterTileInOverlap ==
  \A p \in PixelsOf(infoSet[i]) :
     Covers(infoSet[i - 1], p[1], p[2]) =>
        ValueAt(master.info, master.band, p[1], p[2])
          = ValueAt(infoSet[i], fetched, p[1], p[2])

\* C6: for two overlapping tiles without nodata value and no combiningFunc,
\* once the later tile is written every pixel of the overlap region holds the
\* value the later tile has for that pixel (so [A, B] leaves B's values
\* there and [B, A] leaves A's).
C6_LastTileWinsInOverlap == DensePairApplied => LaterTileInOverlap

\* C6, for a master whose row 0 is at the top (every master the call creates)
C6_LastTileWinsTopDownMaster ==
  (DensePairApplied /\ master.info.yAtTop) => LaterTileInOverlap

\* C7: tiles are merged one at a time in input order.  While tile i is fetched,
\* resolved, read and combined, exactly the i-1 tiles before it have been
\* written and flushed and the file holds all the band holds; the window read
\* for tile i is the window of that flushed master; the write of tile i
\* precedes its flush, and the call ends with every tile written and flushed.
C7_SequentialMerge ==
  /\ pc \in {"fetch", "resolve", "read", "combine", "write"} =>
       /\ io.write = i - 1 /\ io.flush = i - 1 /\ io.fetch \in {i - 1, i}
       /\ master.disk = master.band
  /\ pc \in {"combine", "write"} => io.read = i
  /\ pc = "combine" =>
       /\ Rows(mMatrix) = idx.yWin /\ Cols(mMatrix) = idx.xWin
       /\ \A r \in 1..idx.yWin, c \in 1..idx.xWin :
            mMatrix[r][c] = master.disk[idx.yStart + r][idx.xStart + c]
  /\ pc = "flush" => io.write = i /\ io.flush = i - 1 /\ io.read = i
  /\ pc \in {"final", "done"} =>
       /\ i = Len(datasets) /\ io.write = i /\ io.flush = i /\ io.read = i
       /\ master.disk = master.band

\* C7 witness: the window read for the second tile differs from what the
\* master held there when the call began: it shows the first tile
C7_Witness ==
  /\ pc = "combine" /\ i = 2 /\ master0 # <<>> /\ io.write = 1 /\ io.flush = 1
  /\ \E r \in 1..idx.yWin, c \in 1..idx.xWin :
       mMatrix[r][c] # master0[idx.yStart + r][idx.xStart + c]

\* C8: with a combiningFunc, it is invoked exactly once per tile, with the
\* master's current window, the master's info, the tile matrix in top-down
\* row order and the tile's info, and what it returns is what the master's
\* window holds after the write, whether or not the tile declares nodata;
\* without a combiningFunc nothing is invoked.
C8_CombiningFuncVerbatim ==
  /\ combiningFunc = "None" => io.calls = 0
  /\ (combiningFunc # "None" /\ pc \in {"fetch", "resolve", "read", "combine"}) =>
       io.calls = i - 1
  /\ (combiningFunc # "None" /\ pc \in {"write"} \cup AppliedPcs) =>
       LET before == IF pc = "write" THEN master.band ELSE prevBand
       IN  /\ io.calls = i
           /\ lastCall.mInfo = master.info
           /\ lastCall.dInfo = datasets[i].info
           /\ Rows(lastCall.dMatrix) = Rows(fetched)
           /\ \A r \in 1..Rows(fetched) :
                lastCall.dMatrix[r] =
                  fetched[IF datasets[i].info.yAtTop THEN r ELSE Rows(fetched) + 1 - r]
           /\ Rows(lastCall.mMatrix) = idx.yWin /\ Cols(lastCall.mMatrix) = idx.xWin
           /\ \A r \in 1..idx.yWin, c \in 1..idx.xWin :
                lastCall.mMatrix[r][c] = before[idx.yStart + r][idx.xStart + c]
           /\ \A r \in 1..idx.yWin, c \in 1..idx.xWin :
                lastCall.ret[r][c] = Max2(lastCall.mMatrix[r][c], lastCall.dMatrix[r][c])
           /\ pc \in AppliedPcs =>
                \A r \in 1..Rows(master.band), c \in 1..Cols(master.band) :
                   LET wr == r - idx.yStart
                       wc == c - idx.xStart
                   IN  master.band[r][c] =
                         IF wr \in 1..idx.yWin /\ wc \in 1..idx.xWin
                         THEN lastCall.ret[wr][wc] ELSE prevBand[r][c]

\* C8 witness: the second tile, which declares nodata, has been written through
\* the combiningFunc, and a data pixel of it did not reach the master (the
\* overlay and the overwrite would both have copied it)
C8_Witness ==
  /\ pc = "flush" /\ i = 2 /\ combiningFunc = "max" /\ io.calls = 2
  /\ infoSet[i].noData # NONE
  /\ \E r \in 1..idx.yWin, c \in 1..idx.xWin :
       /\ dMatrix[r][c] # infoSet[i].noData
       /\ master.band[idx.yStart + r][idx.xStart + c] # dMatrix[r][c]

\* the states in which idx is the window resolved for tile i
ResolvedPcs == {"read", "combine", "write"} \cup AppliedPcs
ExampleInfo(xMax, yMax, yAtTop) ==
  RasterInfo("EPSG:4326", "Byte", 1, 1, 0, 0, xMax, yMax, NONE, yAtTop)

\* C9: the window resolved for a tile satisfies xStart * dx = tileXMin -
\* masterXMin, xWin * dx = tileXMax - tileXMin, yWin * dy = tileYMax - tileYMin,
\* and yStart * dy = masterYMax - tileYMax for a top-down master, tileYMin -
\* masterYMin for a bottom-up one.  Tile bounds (0,0,10,10) in a master of
\* bounds (0,0,20,20) at dx = dy = 1 resolve to xStart 0, yStart 10, xWin 10,
\* yWin 10 top-down, and to yStart 0 bottom-up.
C9_SubWindow ==
  /\ (pc \in ResolvedPcs \/ (pc = "error" /\ err = "BackendIOError")) =>
       /\ idx.ok
       /\ idx.xStart * mInfo.dx = infoSet[i].xMin - mInfo.xMin
       /\ idx.xWin * mInfo.dx = infoSet[i].xMax - infoSet[i].xMin
       /\ idx.yWin * mInfo.dy = infoSet[i].yMax - infoSet[i].yMin
       /\ mInfo.yAtTop => idx.yStart * mInfo.dy = mInfo.yMax - infoSet[i].yMax
       /\ ~mInfo.yAtTop => idx.yStart * mInfo.dy = infoSet[i].yMin - mInfo.yMin
  /\ ResolveWindow(ExampleInfo(20, 20, TRUE), ExampleInfo(10, 10, TRUE))
       = [ok |-> TRUE, xStart |-> 0, yStart |-> 10, xWin |-> 10, yWin |-> 10]
  /\ ResolveWindow(ExampleInfo(20, 20, FALSE), ExampleInfo(10, 10, TRUE))
       = [ok |-> TRUE, xStart |-> 0, yStart |-> 0, xWin |-> 10, yWin |-> 10]

\* C9 witness: a window resolved one row below the top of a top-down master
\* whose pixels are 2 high
C9_Witness ==
  /\ pc = "read" /\ idx.ok /\ mInfo.yAtTop /\ mInfo.dy = 2 /\ idx.yStart = 1
  /\ mInfo.yMax - infoSet[i].yMax = 2

\* whether tile k lies off the master's pixel grid
Misaligned(k) ==
  \/ (infoSet[k].xMin - mInfo.xMin) % mInfo.dx # 0
  \/ (IF mInfo.yAtTop THEN mInfo.yMax - infoSet[k].yMax
       ELSE infoSet[k].yMin - mInfo.yMin) % mInfo.dy # 0

\* C10: a tile whose bounds do not land on integer pixel offsets of the
\* master grid makes the call fail with the misaligned-tile error: such a
\* tile is never read for, combined or written; when the error is raised for
\* tile i only the i-1 tiles before it have been read for and written, no
\* later tile has been fetched, and the call takes no further step.
C10_MisalignedTileAborts ==
  /\ pc \in {"read", "combine", "write", "flush"} => ~Misaligned(i)
  /\ pc \in {"final", "done"} => \A k \in 1..Len(infoSet) : ~Misaligned(k)
  /\ (pc = "error" /\ err = "MisalignedTile") =>
       /\ Misaligned(i)
       /\ io.read = i - 1 /\ io.write = i - 1 /\ io.flush = i - 1 /\ io.fetch = i
       /\ master.disk = master.band
       /\ ~(ENABLED Next)

\* C10 witness: the second tile is half a pixel off in x (pixels 2 wide),
\* after the first tile has been written
C10_Witness ==
  /\ pc = "error" /\ err = "MisalignedTile" /\ i = 2 /\ io.write = 1
  /\ mInfo.dx = 2 /\ (infoSet[2].xMin - mInfo.xMin) % 2 = 1

\* ------------------------------------------------------- row orientation
\* the upper edge of row r (1-based) of the tile matrix handed to the
\* combining step, which lines 80-81 have put in top-down order
TileRowTop(r) == infoSet[i].yMax - (r - 1) * infoSet[i].dy
\* the upper edge of row r of the window read from the master at idx
WindowRowTop(r) ==
  IF mInfo.yAtTop THEN mInfo.yMax - (idx.yStart + r - 1) * mInfo.dy
  ELSE mInfo.yMin + (idx.yStart + r) * mInfo.dy
\* the row the tile's file holds for the pixels whose upper edge is yTop
TileRowAt(yTop) ==
  fetched[IF infoSet[i].yAtTop THEN (infoSet[i].yMax - yTop) \div infoSet[i].dy + 1
          ELSE (yTop - infoSet[i].yMin) \div infoSet[i].dy]

\* C12: when a tile is combined with the window read from the master, row r
\* of the tile matrix and row r of the window cover the same geographic row,
\* whatever the row orientations of the tile and of the master: the rows have
\* the same upper edge, and row r of the tile matrix is the row the tile's
\* file holds for the place of row r of the window.
C12_SameRowOrder ==
  pc \in {"combine", "write"} =>
     \A r \in 1..idx.yWin :
        /\ TileRowTop(r) = WindowRowTop(r)
        /\ dMatrix[r] = TileRowAt(WindowRowTop(r))

\* C12, for a master whose row 0 is at the top (every master the call creates)
C12_SameRowOrderTopDownMaster ==
  (pc \in {"combine", "write"} /\ mInfo.yAtTop) =>
     \A r \in 1..idx.yWin :
        /\ TileRowTop(r) = WindowRowTop(r)
        /\ dMatrix[r] = TileRowAt(WindowRowTop(r))

\* ------------------------------------------------------- new master nodata
\* the one nodata declaration all tiles share (NONE: none declared, or no
\* agreement)
SharedNoData ==
  IF \A k \in 1..Len(datasets) : datasets[k].info.noData = datasets[1].info.noData
  THEN datasets[1].info.noData ELSE NONE
\* the master the call created has not been written yet
NewMasterUntouched == created.called /\ io.write = 0 /\ pc # "error"

\* C13: a master that is created gets as nodata value the noDataValue
\* argument when one is given, else the nodata value all tiles declare when
\* they all declare the same one, else none; createRaster is asked to fill
\* the raster with that value, and until the first tile is written every
\* pixel of the new master holds it.
C13_NewMasterNoData ==
  created.called =>
     /\ created.noDataValue =
          (IF noDataValue # NONE THEN noDataValue ELSE SharedNoData)
     /\ created.fillValue = created.noDataValue
     /\ master.info.noData = created.noDataValue
     /\ (NewMasterUntouched /\ created.noDataValue # NONE) =>
          \A r \in 1..Rows(master.band), c \in 1..Cols(master.band) :
             master.band[r][c] = created.noDataValue

\* C13 witness: no override, two tiles that both declare nodata 0 where the
\* second is not the first: the new master is filled with 0 as the first
\* tile's window is about to be read
C13_Witness ==
  /\ created.called /\ noDataValue = NONE /\ Len(datasets) = 2
  /\ datasets[1].info.noData = 0 /\ datasets[2].info.noData = 0
  /\ datasets[1].info # datasets[2].info
  /\ pc = "read" /\ i = 1 /\ master.info.noData = 0 /\ master.band[1][1] = 0

\* C13 second case: tiles that disagree on nodata, no override: none is set
C13_WitnessDisagree ==
  /\ created.called /\ noDataValue = NONE /\ Len(datasets) = 2
  /\ datasets[1].info.noData # datasets[2].info.noData
  /\ master.info.noData = NONE

\* --------------------------------------------------------- window safety
\* the states in which idx has been handed to ReadAsArray or WriteArray
WindowUsed == pc \in {"combine", "write"} \cup AppliedPcs
                \/ (pc = "error" /\ err = "BackendIOError")

\* C15: every window handed to the master band's ReadAsArray or WriteArray
\* lies inside the master's pixel grid: 0 <= xStart, 0 <= yStart,
\* xStart + xWin <= width, yStart + yWin <= height, for a master the call
\* created and for one that existed.
C15_WindowInsideMaster == WindowUsed => WindowInside(master.band, idx)

\* C15, for a master the call has created
C15_WindowInsideNewMaster ==
  (WindowUsed /\ created.called) => WindowInside(master.band, idx)

\* ------------------------------------------------- failure in the tile loop
\* the call has failed while processing tile i
FailedInLoop == pc = "error" /\ i >= 1
\* ... before WriteArray was called for tile i
FailedBeforeWrite == FailedInLoop /\ io.write = i - 1
\* each step of tile i was attempted at most once, no step of a later tile
\* was attempted, and the call takes no further step
SurfacedWithoutRetry ==
  /\ io.fetch = i /\ io.read \in {i - 1, i} /\ io.write \in {i - 1, i}
  /\ io.flush \in {i - 1, i} /\ io.calls <= i
  /\ ~(ENABLED Next)
\* a step that was to fail has been reached
FaultMet ==
  /\ failAt # NoFault
  /\ \/ i > failAt.tile
     \/ pc \in {"final", "done"}
     \/ /\ i = failAt.tile
        /\ \/ failAt.step = "fetch" /\ pc \in {"resolve", "read", "combine", "write", "flush"}
           \/ failAt.step = "read" /\ pc \in {"combine", "write", "flush"}
           \/ failAt.step = "func" /\ pc \in {"write", "flush"}
           \/ failAt.step = "write" /\ pc = "flush"

\* C11: when the call fails while processing tile i of the loop, after at
\* least one tile has been flushed (i >= 2; the loop index is 1-based here),
\* the master (its band and its file) holds exactly what it held when tile
\* i-1 was flushed, that is the merge of the tiles before i; tile i and the
\* later tiles have contributed nothing, and the failure ends the call: no
\* step is retried and none follows.
C11_FailureLeavesMergedPrefix ==
  (FailedInLoop /\ i >= 2) =>
     /\ master.band = merged /\ master.disk = merged
     /\ SurfacedWithoutRetry

\* C11 as amended: a failure before tile i's WriteArray (fetching the tile,
\* resolving or reading its window, the combiningFunc) leaves the band and
\* the file exactly as they were when tile i-1 was flushed; a failure of tile
\* i's WriteArray or FlushCache leaves every pixel outside tile i's window so,
\* and the file as flushed for tile i-1 or as the band.  In both cases no
\* later tile is fetched, no step is retried, and the call never goes on past
\* a failed step.
C11_FailureBeforeWriteLeavesMergedPrefix ==
  /\ FailedBeforeWrite => master.band = merged /\ master.disk = merged
  /\ FailedInLoop =>
       /\ SurfacedWithoutRetry
       /\ master.disk \in {merged, master.band}
       /\ Rows(master.band) = Rows(merged)
       /\ \A r \in 1..Rows(merged), c \in 1..Cols(merged) :
            (r - idx.yStart \in 1..idx.yWin /\ c - idx.xStart \in 1..idx.xWin)
              \/ master.band[r][c] = merged[r][c]
  /\ ~FaultMet

\* C11 witness: the fetch of the second tile has failed after the first tile
\* changed a master that existed, and the master holds the first tile's merge
C11_Witness ==
  /\ pc = "error" /\ err = "IOFailure" /\ i = 2 /\ io.fetch = 2 /\ io.write = 1
  /\ master0 # <<>> /\ master.band # master0 /\ master.band = merged
  /\ master.disk = merged

\* C11 second case: the write of the second tile has failed and left its window written
C11_WitnessFailedWrite ==
  /\ pc = "error" /\ err = "IOFailure" /\ i = 2 /\ io.write = 2
  /\ master.band # merged

\* ------------------------------------------------------------- geomutil
\* the union of all geometries of a list, taken one by one from the left
RECURSIVE FoldUnion(_)
FoldUnion(l) ==
  IF Len(l) = 1 THEN l[1]
  ELSE Union(FoldUnion(SubSeq(l, 1, Len(l) - 1)), l[Len(l)])
FlattenReturned == fl.ret # Pending

\* C14: flatten terminates for every list, and returns None for the empty
\* list and otherwise the union of all geometries of the list as a fold from
\* the left gives it: every geometry goes in exactly once, also the unpaired
\* last one of a round of odd length.
C14_FlattenIsFoldUnion ==
  /\ [](FlattenReturned =>
          fl.ret = IF Len(fl.geoms0) = 0 THEN NoneVal ELSE GeomVal(FoldUnion(fl.geoms0)))
  /\ [](gpc \in {"f_while", "f_for"} =>
          /\ Len(fl.geoms) >= 1
          /\ FoldUnion(fl.geoms) = FoldUnion(fl.geoms0))
  /\ (gpc = "f_entry" ~> FlattenReturned)

\* C14 witness: five geometries (rounds of 5, 3, 2) have been flattened
C14_Witness ==
  /\ gpc = "done" /\ fl.caller = "user" /\ Len(fl.geoms0) = 5
  /\ fl.ret = GeomVal(FoldUnion(fl.geoms0))
  /\ fl.ret.geom[1] = 5

\* convertMask has returned
MaskReturned == gpc = "done" /\ cm.ret # Pending

\* C16: what convertMask returns has the shape flat asks for, for every mask:
\* with flat false a list of geometries, the empty list when polygonizing
\* gave no feature; with flat true one geometry, None when there is no
\* feature.
C16_ReturnShapeFollowsFlat ==
  MaskReturned =>
     IF cm.flat
     THEN cm.ret.kind = (IF Len(cm.ftrs) = 0 THEN "None" ELSE "geom")
     ELSE cm.ret.kind = "list" /\ Len(cm.ret.list) = Len(cm.ftrs)

\* C16, for a mask in which polygonizing finds a feature
C16_ReturnShapeWithFeatures ==
  (MaskReturned /\ Len(cm.ftrs) > 0) =>
     IF cm.flat
     THEN cm.ret = GeomVal(FoldUnion(cm.ftrs))
     ELSE cm.ret = ListVal(cm.ftrs)

====
